---- MODULE Spec2Model ----
(***************************************************************************)
(* Model of narwhal's SQL mapping layer (src/narwhal/sql.py): one sqlite   *)
(* connection, one identity cache per registered data class, and the       *)
(* write and read operations of class SQL.                                 *)
(*                                                                         *)
(* Two data classes are registered: "M" (__immutable__ = False) and "I"    *)
(* (__immutable__ = True).  Each has one integer column, "val".  An        *)
(* instance is a class name plus its __dict__, a function whose domain is  *)
(* the set of attributes the instance carries ("dbid" and "val" may each   *)
(* be missing).                                                            *)
(***************************************************************************)
EXTENDS Integers, Sequences, FiniteSets, TLC

VARIABLES obj, cache, table, inTxn, last, expr, ctx, reg

vars == <<obj, cache, table, inTxn, last, expr, ctx, reg>>

----------------------------------------------------------------------------
(* Bounds of the model *)

\* longest list handed to AddList / UpdateList
MaxList == 2

\* most fragments handed to And / Or / OrderChain in one call
MaxArgs == 2

\* longest fragment text that is nested into a further fragment
MaxText == 12

\* rows a table of the schema model may hold
MaxRows == 1

\* rows a table holds when the database file is opened
MaxPre == 2

----------------------------------------------------------------------------
(* Registered data classes *)

Kinds == {"M", "I"}

\* data_class.__immutable__
Immutable(k) == k = "I"

\* the sentinel Add and AddList compare dbid against
NoDbid == -1

\* SQL.TYPE_DEFAULT["integer"]
TYPE_DEFAULT == -1

\* The instances application code constructs: class and __dict__.  The
\* first is a partial instance (no attribute set yet), the second carries
\* the sentinel dbid.
AppObjs ==
  << [cls |-> "M", idict |-> [x \in {} |-> 0]],
     [cls |-> "M", idict |-> [dbid |-> NoDbid, val |-> 1]],
     [cls |-> "I", idict |-> [val |-> 1]] >>

----------------------------------------------------------------------------
(* Helpers on dictionaries *)

\* d[key] = v on a python dict
SetKey(d, key, v) ==
  [x \in (DOMAIN d) \cup {key} |-> IF x = key THEN v ELSE d[x]]

EmptyDict == [x \in {} |-> 0]

\* "dbid" in item.__dict__
HasDbid(s, i) == "dbid" \in DOMAIN s.obj[i].idict

\* "dbid" in item.__dict__ and item.dbid != -1
ValidDbid(s, i) == HasDbid(s, i) /\ s.obj[i].idict["dbid"] # NoDbid

\* The value written for column "val": the attribute when the instance
\* has it, the storage type's default otherwise.
ColVal(d) == IF "val" \in DOMAIN d THEN d["val"] ELSE TYPE_DEFAULT

----------------------------------------------------------------------------
(* The sqlite connection.  A store value s is the whole program state     *)
(* an operation works on, plus what the running call did so far:           *)
(* s.stmts execute/executemany calls, s.commits commits, s.err whether an  *)
(* IntegrityError is propagating.  A stored row records, besides its       *)
(* columns dbid and val, the instance it was inserted from (src) and the   *)
(* operation that inserted it (via).                                       *)

RowDbids(rows) == {rows[j].dbid : j \in 1..Len(rows)}

\* connection.commit()
ConnCommit(s) == [s EXCEPT !.inTxn = FALSE, !.commits = @ + 1]

\* One INSERT of a row: dbid is the table's primary key, so a row whose
\* dbid is already present is rejected with IntegrityError.
InsertRow(s, k, row) ==
  IF row.dbid \in RowDbids(s.table[k])
    THEN [s EXCEPT !.err = TRUE]
    ELSE [s EXCEPT !.table[k] = Append(@, row)]

\* UPDATE <table> SET val = ? WHERE dbid = ?
UpdateRow(rows, dbid, val) ==
  [j \in 1..Len(rows) |->
     IF rows[j].dbid = dbid THEN [rows[j] EXCEPT !.val = val] ELSE rows[j]]

\* connection.execute(insert ...): opens a transaction, runs the INSERT
ExecInsert(s, k, row) ==
  InsertRow([s EXCEPT !.inTxn = TRUE, !.stmts = @ + 1], k, row)

\* connection.execute(update ...)
ExecUpdate(s, k, dbid, val) ==
  [s EXCEPT !.inTxn = TRUE, !.stmts = @ + 1,
            !.table[k] = UpdateRow(@, dbid, val)]

\* a row count that is always 0
TableLength_z(s, k) == 0

\* a row count that is one too high
TableLength_m(s, k) == Len(s.table[k]) + 1

\* len(cursor.fetchall()) of "select * from <table>"
TableLength(s, k) == Len(s.table[k])

----------------------------------------------------------------------------
(* SQL.Add and SQL.Update *)

RECURSIVE Add(_, _, _)
RECURSIVE Update(_, _, _, _)

\* an Add that commits whatever its commit argument is
Add_m(s, i, commit) ==
  IF ValidDbid(s, i)
    THEN Update(s, i, FALSE, commit)
    ELSE
      LET n  == TableLength(s, s.obj[i].cls)
          s1 == [s EXCEPT !.obj[i].idict = SetKey(@, "dbid", n),
                          !.cache[s.obj[i].cls] = SetKey(@, n, i)]
          s2 == ExecInsert(s1, s.obj[i].cls,
                  [dbid |-> n, val |-> ColVal(s.obj[i].idict),
                   src |-> i, via |-> "Add"])
      IN IF s2.err THEN s2 ELSE ConnCommit(s2)

Add(s, i, commit) ==
  LET k == s.obj[i].cls
      d == s.obj[i].idict
  IN
  IF ValidDbid(s, i)
    THEN Update(s, i, FALSE, commit)
    ELSE
      LET n  == TableLength(s, k)
          s1 == [s EXCEPT !.obj[i].idict = SetKey(d, "dbid", n),
                          !.cache[k] = SetKey(@, n, i)]
          s2 == ExecInsert(s1, k,
                  [dbid |-> n, val |-> ColVal(d), src |-> i, via |-> "Add"])
      IN IF s2.err THEN s2
         ELSE IF commit THEN ConnCommit(s2) ELSE s2

\* an Update that does not look at __immutable__
Update_m(s, i, force_update, commit) ==
  IF HasDbid(s, i)
    THEN
      LET s1 == ExecUpdate(s, s.obj[i].cls, s.obj[i].idict["dbid"],
                           ColVal(s.obj[i].idict))
      IN IF commit THEN ConnCommit(s1) ELSE s1
    ELSE Add(s, i, commit)

Update(s, i, force_update, commit) ==
  LET k == s.obj[i].cls
      d == s.obj[i].idict
  IN
  IF HasDbid(s, i)
    THEN
      IF Immutable(k) /\ ~force_update
        THEN s
        ELSE
          LET s1 == ExecUpdate(s, k, d["dbid"], ColVal(d))
              s2 == [s1 EXCEPT !.upd[i] = @ + 1]
          IN IF commit THEN ConnCommit(s2) ELSE s2
    ELSE Add(s, i, commit)

----------------------------------------------------------------------------
(* SQL.AddList *)

\* First loop of AddList: an item with a valid dbid is handed to Update,
\* the others are collected in item_list.
RECURSIVE AddListScan(_, _, _, _, _)
AddListScan(s, i_list, j, item_list, commit) ==
  IF j > Len(i_list) \/ s.err
    THEN [s |-> s, item_list |-> item_list]
    ELSE IF ValidDbid(s, i_list[j])
      THEN AddListScan(Update(s, i_list[j], FALSE, commit),
                       i_list, j + 1, item_list, commit)
      ELSE AddListScan(s, i_list, j + 1, Append(item_list, i_list[j]), commit)

\* Second loop of AddList: item_list[j] gets dbid j-1 (python index i = j-1),
\* is cached under it, and its row is appended to new_entries.
RECURSIVE AddListAssign(_, _, _, _, _)
AddListAssign(s, k, item_list, j, new_entries) ==
  IF j > Len(item_list)
    THEN [s |-> s, new_entries |-> new_entries]
    ELSE
      LET i  == item_list[j]
          d  == SetKey(s.obj[i].idict, "dbid", j - 1)
          s1 == [s EXCEPT !.obj[i].idict = d,
                          !.cache[k] = SetKey(@, j - 1, i)]
      IN AddListAssign(s1, k, item_list, j + 1,
           Append(new_entries,
             [dbid |-> j - 1, val |-> ColVal(d), src |-> i, via |-> "AddList"]))

\* The rows of an executemany(insert ...), one INSERT after the other; the
\* first rejected row raises and the rows before it stay inserted.
RECURSIVE InsertRows(_, _, _, _)
InsertRows(s, k, new_entries, j) ==
  IF j > Len(new_entries) \/ s.err
    THEN s
    ELSE InsertRows(InsertRow(s, k, new_entries[j]), k, new_entries, j + 1)

\* an executemany that runs the INSERT for the first row only
ExecManyInsert_m(s, k, new_entries) ==
  InsertRows([s EXCEPT !.inTxn = TRUE, !.stmts = @ + 1], k,
             SubSeq(new_entries, 1, 1), 1)

\* connection.executemany(insert ...)
ExecManyInsert(s, k, new_entries) ==
  InsertRows([s EXCEPT !.inTxn = TRUE, !.stmts = @ + 1], k, new_entries, 1)

AddList(s, i_list, commit) ==
  IF Len(i_list) = 0
    THEN s
    ELSE
      LET k  == s.obj[i_list[1]].cls
          sc == AddListScan(s, i_list, 1, <<>>, commit)
          sa == AddListAssign(sc.s, k, sc.item_list, 1, <<>>)
          s3 == ExecManyInsert(sa.s, k, sa.new_entries)
      IN IF sc.s.err THEN sc.s
         ELSE IF s3.err THEN s3
         ELSE IF commit THEN ConnCommit(s3) ELSE s3

----------------------------------------------------------------------------
(* SQL.UpdateList *)

RECURSIVE UpdateRows(_, _, _)
UpdateRows(rows, arg_list, j) ==
  IF j > Len(arg_list)
    THEN rows
    ELSE UpdateRows(UpdateRow(rows, arg_list[j].dbid, arg_list[j].val),
                    arg_list, j + 1)

\* connection.executemany(update ...)
ExecManyUpdate(s, k, arg_list) ==
  [s EXCEPT !.inTxn = TRUE, !.stmts = @ + 1,
            !.table[k] = UpdateRows(@, arg_list, 1)]

\* for item in i_list: each list of item.__get_lists__() gets
\* __update_to_db__(); i_list holds the items of arg_list, from the j-th on
RECURSIVE UpdateLists(_, _, _)
UpdateLists(s, arg_list, j) ==
  IF j > Len(arg_list) THEN s
  ELSE UpdateLists([s EXCEPT !.upd[arg_list[j].item] = @ + 1], arg_list,
                   j + 1)

\* The loop over item_list.  The calls to AddList and executemany and the
\* commit are inside the loop body, so they run once per item, each time on
\* the lists accumulated so far.
RECURSIVE UpdateListLoop(_, _, _, _, _, _, _)
UpdateListLoop(s, k, item_list, j, arg_list, add_list, commit) ==
  IF j > Len(item_list)
    THEN s
    ELSE
      LET i     == item_list[j]
          d     == s.obj[i].idict
          keyed == HasDbid(s, i)
          args1 == IF keyed
                     THEN Append(arg_list, [dbid |-> d["dbid"],
                                            val |-> ColVal(d), item |-> i])
                     ELSE arg_list
          add1  == IF keyed THEN add_list ELSE Append(add_list, i)
          s1    == AddList(s, add1, commit)
          s2    == UpdateLists(ExecManyUpdate(s1, k, args1), args1, 1)
          s3    == IF commit THEN ConnCommit(s2) ELSE s2
      IN IF s1.err THEN s1
         ELSE UpdateListLoop(s3, k, item_list, j + 1, args1, add1, commit)

UpdateList(s, item_list, force_update, commit) ==
  IF Len(item_list) = 0
    THEN s
    ELSE
      LET k == s.obj[item_list[1]].cls
      IN IF Immutable(k) /\ ~force_update
           THEN s
           ELSE UpdateListLoop(s, k, item_list, 1, <<>>, <<>>, commit)

----------------------------------------------------------------------------
(* SQL.Clear and SQL.Commit *)

\* a Clear that leaves the cache alone
Clear_m(s, k) ==
  ConnCommit([s EXCEPT !.inTxn = TRUE, !.stmts = @ + 1, !.table[k] = <<>>])

\* delete from <table>; commit; reset the class's cache bucket
Clear(s, k) ==
  LET s1 == [s EXCEPT !.inTxn = TRUE, !.stmts = @ + 1, !.table[k] = <<>>]
      s2 == ConnCommit(s1)
  IN [s2 EXCEPT !.cache[k] = EmptyDict]

Commit(s) == ConnCommit(s)

----------------------------------------------------------------------------
(* Reads *)

\* Copies a row into an instance: existing_item = 0 stands for None, and
\* then a new instance of the class is allocated.  Gives the store and the
\* instance.
CopyRowToData(s, k, row, existing_item) ==
  LET s1   == IF existing_item = 0
                THEN [s EXCEPT !.obj = Append(@, [cls |-> k, idict |-> EmptyDict])]
                ELSE s
      item == IF existing_item = 0 THEN Len(s1.obj) ELSE existing_item
      d    == SetKey(SetKey(s1.obj[item].idict, "dbid", row.dbid), "val", row.val)
  IN [s |-> [s1 EXCEPT !.obj[item].idict = d], item |-> item]

\* a ProcessRow that allocates a new instance for every row, cached or not
ProcessRow_m(s, k, row) ==
  LET c == CopyRowToData(s, k, row, 0)
  IN [s |-> [c.s EXCEPT !.cache[k] = SetKey(@, row.dbid, c.item)],
      item |-> c.item]

ProcessRow(s, k, row) ==
  IF row.dbid \in DOMAIN s.cache[k]
    THEN CopyRowToData(s, k, row, s.cache[k][row.dbid])
    ELSE
      LET c == CopyRowToData(s, k, row, 0)
      IN [s |-> [c.s EXCEPT !.cache[k] = SetKey(@, row.dbid, c.item)],
          item |-> c.item]

\* Predicates built by Query.Equals and Query.GreaterThanEquals
Equals(var_name, val) == [col |-> var_name, op |-> "=", v |-> val]

GreaterThanEquals(var_name, val) == [col |-> var_name, op |-> ">=", v |-> val]

\* whether the WHERE clause accepts a row
Matches(row, args) ==
  LET x == IF args.col = "dbid" THEN row.dbid ELSE row.val
  IN IF args.op = "=" THEN x = args.v ELSE x >= args.v

\* The rows of a table in the order a scan gives them: by primary key.
RECURSIVE ByDbid(_)
ByDbid(rows) ==
  IF Len(rows) = 0
    THEN <<>>
    ELSE
      LET m    == CHOOSE j \in 1..Len(rows) :
                    \A l \in 1..Len(rows) : rows[j].dbid <= rows[l].dbid
          rest == [l \in 1..(Len(rows) - 1) |->
                     IF l < m THEN rows[l] ELSE rows[l + 1]]
      IN <<rows[m]>> \o ByDbid(rest)

\* cursor.execute(select * from <table> where ...); cursor.fetchall()
ExecuteSelect(s, k, args) ==
  SelectSeq(ByDbid(s.table[k]), LAMBDA row : Matches(row, args))

\* The loop "for result in results: item = self.ProcessRow(...)".
\* Gives the store and search_list.
RECURSIVE ProcessRows(_, _, _, _, _)
ProcessRows(s, k, results, j, search_list) ==
  IF j > Len(results)
    THEN [s |-> s, ret |-> search_list, found |-> TRUE]
    ELSE
      LET p == ProcessRow(s, k, results[j])
      IN ProcessRows(p.s, k, results, j + 1, Append(search_list, p.item))

Select(s, k, args) == ProcessRows(s, k, ExecuteSelect(s, k, args), 1, <<>>)

\* a SelectOne that empties the class's cache bucket when no row matches
SelectOne_m(s, k, args) ==
  LET results == ExecuteSelect(s, k, args)
  IN IF Len(results) = 0
       THEN [s |-> [s EXCEPT !.cache[k] = EmptyDict], ret |-> <<>>,
             found |-> FALSE]
       ELSE ProcessRows(s, k, <<results[1]>>, 1, <<>>)

\* fetchone(): None (found = FALSE) when no row matches
SelectOne(s, k, args) ==
  LET results == ExecuteSelect(s, k, args)
  IN IF Len(results) = 0
       THEN [s |-> s, ret |-> <<>>, found |-> FALSE]
       ELSE ProcessRows(s, k, <<results[1]>>, 1, <<>>)

SelectAtIndex(s, k, index) == SelectOne(s, k, Equals("dbid", index))

\* max(1, int(num))
Limit(num) == IF num < 1 THEN 1 ELSE num

\* The result sets "order by random() limit n" can give: every sequence of
\* min(n, rows) different rows.
RandomResults(rows, num) ==
  LET m == IF Limit(num) < Len(rows) THEN Limit(num) ELSE Len(rows)
  IN { [j \in 1..m |-> rows[q[j]]] :
         q \in { f \in [1..m -> 1..Len(rows)] :
                   \A a, b \in 1..m : a # b => f[a] # f[b] } }

RandomEntries(s, k, results) == ProcessRows(s, k, results, 1, <<>>)

----------------------------------------------------------------------------
(* Class Query: predicate and ordering fragments.  A python str is modelled *)
(* as the sequence of its characters, a python tuple as the sequence of     *)
(* its items, each tagged with its type.  A call gives err ("none", or the  *)
(* exception it raised) and, when it returned, val.                         *)

Str(s) == [t |-> "str", v |-> s]

Tuple(x) == [t |-> "tuple", v |-> x]

Returned(x) == [err |-> "none", val |-> x]

Raised(e) == [err |-> e, val |-> Str(<<>>)]

\* x[i] with python's index i >= 0: a character of a str, an item of a tuple
Item(x, i) == IF x.t = "str" THEN Str(<<x.v[i + 1]>>) ELSE x.v[i + 1]

\* f"{x}" for a str x
Format(x) == x.v

\* Query.GreaterThan: (f"{var_name} > ?", (val,))
GreaterThan(var_name, val) ==
  Tuple(<<Str(var_name \o <<" ", ">", " ", "?">>), Tuple(<<val>>)>>)

\* Query.LessThan: (f"{var_name} < ?", (val,))
LessThan(var_name, val) ==
  Tuple(<<Str(var_name \o <<" ", "<", " ", "?">>), Tuple(<<val>>)>>)

\* Query.Between: (f"{var_name} between ? and ?", (val1, val2))
Between(var_name, val1, val2) ==
  Tuple(<<Str(var_name \o <<" ", "b", "e", "t", "w", "e", "e", "n", " ", "?",
                            " ", "a", "n", "d", " ", "?">>),
          Tuple(<<val1, val2>>)>>)

\* Query.Not: (f"not ({expr[0]})", expr[1])
Not(e) ==
  Tuple(<<Str(<<"n", "o", "t", " ", "(">> \o Format(Item(e, 0)) \o <<")">>),
          Item(e, 1)>>)

\* a pass that puts the values of expr in front of those collected so far
ChainStep_m(acc, e, tail) ==
  IF acc.err # "none" THEN acc
  ELSE Returned(
         Tuple(<<Str(Item(acc.val, 0).v \o <<"(">> \o Format(Item(e, 0))
                       \o <<")">> \o tail),
                 Tuple(Item(e, 1).v \o Item(acc.val, 1).v)>>))

\* One pass of "query_str += f'({expr[0]}){chain_str}'; val_tup += expr[1]"
\* (tail = chain_str) or of the two statements after the loop (tail = "").
\* expr[0] and expr[1] raise IndexError when expr is too short, and
\* tuple += x raises TypeError when x is not a tuple.
ChainStep(acc, e, tail) ==
  IF acc.err # "none" THEN acc
  ELSE IF Len(e.v) < 1 THEN Raised("IndexError")
  ELSE IF Len(e.v) < 2 THEN Raised("IndexError")
  ELSE IF Item(e, 1).t # "tuple" THEN Raised("TypeError")
  ELSE Returned(
         Tuple(<<Str(Item(acc.val, 0).v \o <<"(">> \o Format(Item(e, 0))
                       \o <<")">> \o tail),
                 Tuple(Item(acc.val, 1).v \o Item(e, 1).v)>>))

\* the loop "for i in range(expr_range)" of ChainExprs, from index i on
RECURSIVE ChainLoop(_, _, _, _)
ChainLoop(exprs, i, acc, chain_str) ==
  IF i >= Len(exprs) - 1
    THEN acc
    ELSE ChainLoop(exprs, i + 1, ChainStep(acc, exprs[i + 1], chain_str),
                   chain_str)

\* Query.ChainExprs(exprs, chain_str); exprs is the tuple of arguments
ChainExprs(exprs, chain_str) ==
  LET start == Returned(Tuple(<<Str(<<>>), Tuple(<<>>)>>))
      acc   == ChainLoop(exprs, 0, start, chain_str)
  IN IF acc.err # "none" THEN acc
     ELSE IF Len(exprs) = 0 THEN Raised("IndexError")
     ELSE ChainStep(acc, exprs[Len(exprs)], <<>>)

And(exprs) == ChainExprs(exprs, <<" ", "a", "n", "d", " ">>)

Or(exprs) == ChainExprs(exprs, <<" ", "o", "r", " ">>)

\* Query.OrderAscending: f"{v} asc"
OrderAscending(v) == Str(v \o <<" ", "a", "s", "c">>)

\* Query.OrderDescending: f"{v} desc"
OrderDescending(v) == Str(v \o <<" ", "d", "e", "s", "c">>)

\* Query.OrderChain(*exprs): ChainExprs(exprs), chain_str = ", "
OrderChain(exprs) == ChainExprs(exprs, <<",", " ">>)

----------------------------------------------------------------------------
(* Schema derivation: the class-level registries of SQL and the            *)
(* __sql_columns__ lists RegisterTables derives from the declared fields.  *)
(* A text built by an f-string is the sequence of the pieces it joins.     *)

\* The data classes of the schema model and their __annotations__, in
\* declaration order: class P has an int, a Money and a List[C] field,
\* class C has a bool and a Temp field.  Money exposes __sql_type__,
\* Temp is a plain class that RegisterTypeConversion can register, and
\* List[C] is a subscripted generic (arg is its type argument).
DataClasses == {"P", "C"}

Plain(n) == [name |-> n, generic |-> FALSE, arg |-> ""]

Alias(n, a) == [name |-> n, generic |-> TRUE, arg |-> a]

Annotations(dc) ==
  IF dc = "P"
  THEN << [var |-> "n", type |-> Plain("int")],
          [var |-> "m", type |-> Plain("Money")],
          [var |-> "kids", type |-> Alias("List", "C")] >>
  ELSE << [var |-> "x", type |-> Plain("bool")],
          [var |-> "t", type |-> Plain("Temp")] >>

\* the classes that carry __sql_type__, with its value
SqlTypeOf == [Money |-> "money"]

\* str.lower() on the class names of the model
Lower(n) ==
  CASE n = "P" -> "p"
    [] n = "C" -> "c"
    [] n = "Temp" -> "temp"
    [] n = "Money" -> "money"
    [] OTHER -> n

\* SQL.TYPE_TABLE as the class body sets it
TYPE_TABLE ==
  [str |-> "text", int |-> "integer", bool |-> "integer",
   float |-> "real", date |-> "date", datetime |-> "timestamp"]

\* SQL.TYPE_DEFAULT as the class body sets it (the defaults in python
\* notation)
TYPE_DEFAULTS ==
  [text |-> "''", integer |-> "-1", real |-> "0.0",
   date |-> "date(1000, 1, 1)", timestamp |-> "datetime(1000, 1, 1)"]

\* d[k] = v on a python dict
DictSet(d, k, v) ==
  [x \in DOMAIN d \cup {k} |-> IF x = k THEN v ELSE d[x]]

\* seq.index-free membership test: x in seq
InSeq(x, seq) == \E j \in 1..Len(seq) : seq[j] = x

\* The registration state.  alias_named: whether the interpreter gives a
\* subscripted generic a __name__ attribute (it does from python 3.10 on,
\* not before).  has: the classes that have __sql_columns__; tablename:
\* those that have __tablename__; tables: self.tables; buckets: the keys
\* of self.cache; count: the number of rows of each class's table; out:
\* what the last call did.
NoOut == [op |-> "init", dc |-> "", keys |-> {}, err |-> "none",
          attrs |-> <<>>, dbid |-> -1, cached |-> FALSE, stored |-> FALSE]

NoReg ==
  [alias_named |-> FALSE,
   type_table |-> TYPE_TABLE,
   type_default |-> TYPE_DEFAULTS,
   has |-> {},
   sql_columns |-> [dc \in DataClasses |-> <<>>],
   tablename |-> {},
   tables |-> <<>>,
   buckets |-> {},
   count |-> [dc \in DataClasses |-> 0],
   out |-> NoOut]

\* SQL.RegisterTypeConversion(data_class, adapter, converter, default)
RegisterTypeConversion(r, type_name, default) ==
  LET sql_type == Lower(type_name)
  IN  [r EXCEPT !.type_table = DictSet(@, type_name, sql_type),
                !.type_default = DictSet(@, sql_type, default)]

\* SQL.ListIdentifier: f"_{parent_dc.__name__.lower()}_{varname}_list"
ListIdentifier(parent_dc, varname) ==
  <<"_", Lower(parent_dc), "_", varname, "_list">>

\* SQL.MakeListID: f"{a}_id"
MakeListID(a) == a \o <<"_id">>

\* SQL.MakeListOrder: f"{a}_order"
MakeListOrder(a) == a \o <<"_order">>

\* SQL.RegisterList(parent_class, child_class, varname)
RegisterList(r, parent_class, child_class, varname) ==
  LET list_id == ListIdentifier(parent_class, varname)
      list_id_column == <<MakeListID(list_id), "integer">>
      list_order_column == <<MakeListOrder(list_id), "integer">>
      c0 == IF child_class \in r.has THEN r.sql_columns[child_class]
            ELSE <<>>
      c1 == IF InSeq(list_id_column, c0) THEN c0
            ELSE Append(c0, list_id_column)
      c2 == IF InSeq(list_order_column, c1) THEN c1
            ELSE Append(c1, list_order_column)
  IN  [r EXCEPT !.has = @ \cup {child_class},
                !.sql_columns[child_class] = c2]

\* One pass of the loop of SQL.MakeColumns over the annotations from the
\* i-th on.  m is what the call holds: the registration state r, the
\* local sql_columns, the local var_args ("" while it is unbound) and err.
RECURSIVE MakeColumnsLoop(_, _, _)
MakeColumnsLoop(m, data_class, i) ==
  IF i > Len(Annotations(data_class)) \/ m.err # "none" THEN m
  ELSE
    LET a == Annotations(data_class)[i]
        named == ~a.type.generic \/ m.r.alias_named
        classname == IF named THEN a.type.name ELSE ""
        var_args == IF named THEN m.var_args ELSE a.type.arg
        column(t) == [m EXCEPT !.var_args = var_args,
                               !.sql_columns = Append(@, <<<<a.var>>, t>>)]
        step ==
          IF classname \in DOMAIN m.r.type_table
          THEN column(m.r.type_table[classname])
          ELSE IF a.type.name \in DOMAIN SqlTypeOf
          THEN column(SqlTypeOf[a.type.name])
          ELSE IF a.type.name = "List"
          THEN IF var_args = ""
               THEN [m EXCEPT !.err = "UnboundLocalError"]
               ELSE [m EXCEPT !.var_args = var_args,
                              !.r = RegisterList(m.r, data_class, var_args,
                                                 a.var)]
          ELSE [m EXCEPT !.var_args = var_args]
    IN  MakeColumnsLoop(step, data_class, i + 1)

\* SQL.MakeColumns(data_class)
MakeColumns(r, data_class) ==
  MakeColumnsLoop([r |-> r, sql_columns |-> <<>>, var_args |-> "",
                   err |-> "none"], data_class, 1)

\* The loop of SQL.RegisterTables over data_classes from the i-th on; an
\* exception of MakeColumns ends it.
RECURSIVE RegisterTablesLoop(_, _, _)
RegisterTablesLoop(r, data_classes, i) ==
  IF i > Len(data_classes) THEN r
  ELSE
    LET data_class == data_classes[i]
        r1 == [r EXCEPT !.buckets = @ \cup {data_class},
                        !.has = @ \cup {data_class},
                        !.sql_columns[data_class] =
                           IF data_class \in r.has THEN @ ELSE <<>>]
        m == MakeColumns(r1, data_class)
        r2 == [m.r EXCEPT !.sql_columns[data_class] = @ \o m.sql_columns,
                          !.tablename = @ \cup {data_class}]
    IN  IF m.err # "none" THEN [m.r EXCEPT !.out.err = m.err]
        ELSE RegisterTablesLoop(r2, data_classes, i + 1)

\* SQL.RegisterTables(data_classes)
RegisterTables(r, data_classes) ==
  RegisterTablesLoop(
    [r EXCEPT !.tables = data_classes,
              !.out = [NoOut EXCEPT !.op = "RegisterTables"]],
    data_classes, 1)

\* The loop of SQL.Add over sql_columns from the j-th on: the value of
\* the column when the instance has the attribute, else the default of
\* the column's storage type; SQL.TYPE_DEFAULT[var_type] raises KeyError
\* when the type has none.  The value of an attribute is written as its
\* name.
RECURSIVE AttrList(_, _, _, _)
AttrList(r, sql_columns, keys, j) ==
  IF j > Len(sql_columns) THEN [err |-> "none", attrs |-> <<>>]
  ELSE
    LET var_name == sql_columns[j][1]
        var_type == sql_columns[j][2]
        rest == AttrList(r, sql_columns, keys, j + 1)
    IN  IF Len(var_name) = 1 /\ var_name[1] \in keys
        THEN [rest EXCEPT !.attrs = <<var_name[1]>> \o @]
        ELSE IF var_type \in DOMAIN r.type_default
        THEN [rest EXCEPT !.attrs = <<r.type_default[var_type]>> \o @]
        ELSE [err |-> "KeyError", attrs |-> <<>>]

\* SQL.Add(item) for a new instance of data_class (no dbid) whose
\* __dict__ has the attributes keys: the dbid is the row count, the
\* instance is cached, the values are collected and the row inserted.
\* A class that was not registered has no __tablename__.
AddPartial(r, data_class, keys) ==
  LET out == [NoOut EXCEPT !.op = "Add", !.dc = data_class, !.keys = keys]
      a == AttrList(r, r.sql_columns[data_class], keys, 1)
  IN  IF data_class \notin r.tablename
      THEN [r EXCEPT !.out = [out EXCEPT !.err = "AttributeError"]]
      ELSE IF a.err # "none"
      THEN [r EXCEPT !.out = [out EXCEPT !.err = a.err,
                                         !.dbid = r.count[data_class],
                                         !.cached = TRUE]]
      ELSE [r EXCEPT !.count[data_class] = @ + 1,
                     !.out = [out EXCEPT !.attrs = a.attrs,
                                         !.dbid = r.count[data_class],
                                         !.cached = TRUE,
                                         !.stored = TRUE]]

----------------------------------------------------------------------------
(* State *)

\* the store value an operation starts from
Begin == [obj |-> obj, cache |-> cache, table |-> table, inTxn |-> inTxn,
          stmts |-> 0, commits |-> 0, err |-> FALSE,
          upd |-> [i \in 1..Len(obj) |-> 0]]

\* The record of the last call: the operation, the class it was about,
\* the force_update argument, whether it raised, and for a read the
\* instances it returned (found is FALSE when it returned None).
NoCall == [op |-> "init", k |-> "M", force |-> FALSE, err |-> FALSE,
           ret |-> <<>>, found |-> FALSE]

\* the record of a write that left the store s
WriteCall(op, k, force, s) ==
  [op |-> op, k |-> k, force |-> force, err |-> s.err,
   ret |-> <<>>, found |-> FALSE]

\* the record of a read that gave r
ReadCall(op, k, r) ==
  [op |-> op, k |-> k, force |-> FALSE, err |-> r.s.err,
   ret |-> r.ret, found |-> r.found]

\* no fragment built yet
NoExpr == Returned(Str(<<>>))

\* The execution contexts that call Add step by step (used where Add is
\* not atomic): for each its position in Add (pc), the item and the commit
\* argument of the call, and whether its last call raised.  single is TRUE
\* when the callers keep the single-writer discipline.
Ctxs == {1, 2}

IdleCtx == [pc |-> "idle", i |-> 0, commit |-> FALSE, err |-> FALSE]

NoCtx == [single |-> TRUE, run |-> [c \in Ctxs |-> IdleCtx]]

\* SQL(db_path) on a new database file, after RegisterTables and
\* CreateTables: every table and every cache bucket is empty.
Init ==
  /\ obj = AppObjs
  /\ cache = [k \in Kinds |-> EmptyDict]
  /\ table = [k \in Kinds |-> <<>>]
  /\ inTxn = FALSE
  /\ last = NoCall
  /\ expr = NoExpr
  /\ ctx = NoCtx
  /\ reg = NoReg

\* the store an operation or a step of one leaves
Store(s) ==
  /\ obj' = s.obj
  /\ cache' = s.cache
  /\ table' = s.table
  /\ inTxn' = s.inTxn

\* the program state an operation leaves
Leave(s) ==
  /\ Store(s)
  /\ UNCHANGED <<expr, ctx, reg>>

Objs == 1..Len(obj)

\* lists of different instances of one class, at most MaxList long
Lists ==
  UNION { { l \in [1..n -> Objs] :
              /\ \A j \in 1..n : obj[l[j]].cls = obj[l[1]].cls
              /\ \A a, b \in 1..n : a # b => l[a] # l[b] }
          : n \in 0..MaxList }

\* force_update is read only for an immutable class
Forces(k) == IF Immutable(k) THEN BOOLEAN ELSE {FALSE}

\* the class a list operation works on: that of the first item
ListKind(l) == IF Len(l) = 0 THEN "M" ELSE obj[l[1]].cls

\* predicates the reads are called with
Preds == {GreaterThanEquals("dbid", 0), Equals("val", TYPE_DEFAULT)}

\* indexes SelectAtIndex is called with
Indexes == 0..1

\* row counts RandomEntries is called with
Nums == {0, 2}

DoAdd ==
  \E i \in Objs, commit \in BOOLEAN :
    LET s == Add(Begin, i, commit)
    IN /\ Leave(s)
       /\ last' = WriteCall("Add", obj[i].cls, FALSE, s)

DoUpdate ==
  \E i \in Objs, commit \in BOOLEAN :
    \E force \in Forces(obj[i].cls) :
      LET s == Update(Begin, i, force, commit)
      IN /\ Leave(s)
         /\ last' = WriteCall("Update", obj[i].cls, force, s)

DoAddList ==
  \E i_list \in Lists, commit \in BOOLEAN :
    LET s == AddList(Begin, i_list, commit)
    IN /\ Leave(s)
       /\ last' = WriteCall("AddList", ListKind(i_list), FALSE, s)

DoUpdateList ==
  \E item_list \in Lists, commit \in BOOLEAN :
    \E force \in Forces(ListKind(item_list)) :
      LET s == UpdateList(Begin, item_list, force, commit)
      IN /\ Leave(s)
         /\ last' = WriteCall("UpdateList", ListKind(item_list), force, s)

DoClear ==
  \E k \in Kinds :
    LET s == Clear(Begin, k)
    IN /\ Leave(s)
       /\ last' = WriteCall("Clear", k, FALSE, s)

DoCommit ==
  LET s == Commit(Begin)
  IN /\ Leave(s)
     /\ last' = WriteCall("Commit", "M", FALSE, s)

DoSelect ==
  \E k \in Kinds, args \in Preds :
    LET r == Select(Begin, k, args)
    IN /\ Leave(r.s)
       /\ last' = ReadCall("Select", k, r)

DoSelectOne ==
  \E k \in Kinds, args \in Preds :
    LET r == SelectOne(Begin, k, args)
    IN /\ Leave(r.s)
       /\ last' = ReadCall("SelectOne", k, r)

DoSelectAtIndex ==
  \E k \in Kinds, index \in Indexes :
    LET r == SelectAtIndex(Begin, k, index)
    IN /\ Leave(r.s)
       /\ last' = ReadCall("SelectAtIndex", k, r)

DoRandomEntries ==
  \E k \in Kinds, num \in Nums :
    \E results \in RandomResults(table[k], num) :
      LET r == RandomEntries(Begin, k, results)
      IN /\ Leave(r.s)
         /\ last' = ReadCall("RandomEntries", k, r)

DoTableLength ==
  \E k \in Kinds :
    /\ Leave(Begin)
    /\ last' = [NoCall EXCEPT !.op = "TableLength", !.k = k]

Next ==
  \/ DoAdd
  \/ DoAddList
  \/ DoUpdate
  \/ DoUpdateList
  \/ DoClear
  \/ DoCommit
  \/ DoSelect
  \/ DoSelectOne
  \/ DoSelectAtIndex
  \/ DoRandomEntries
  \/ DoTableLength

Spec == Init /\ [][Next]_vars

----------------------------------------------------------------------------
(* Building query fragments: expr is what the last Query call gave. *)

\* the store is not touched while fragments are built
StoreIdle == UNCHANGED <<obj, cache, table, inTxn, last, ctx, reg>>

BaseFragments ==
  { GreaterThan(<<"a">>, 1), LessThan(<<"b">>, 2), Between(<<"a">>, 1, 2) }

OrderFragments == { OrderAscending(<<"a">>), OrderDescending(<<"b">>) }

\* a (text, values) pair
IsFragment(x) ==
  /\ x.t = "tuple"
  /\ Len(x.v) = 2
  /\ x.v[1].t = "str"
  /\ x.v[2].t = "tuple"

\* the argument tuples And and Or are called with: the fragment built
\* last and the base fragments, in any order
ArgLists(e) ==
  UNION { [1..n -> BaseFragments \cup {e}] : n \in 1..MaxArgs }

OrderLists == UNION { [1..n -> OrderFragments] : n \in 1..MaxArgs }

\* the fragment built last can be nested further
Nestable ==
  /\ expr.err = "none"
  /\ IsFragment(expr.val)
  /\ Len(expr.val.v[1].v) <= MaxText

InitQuery ==
  /\ obj = AppObjs
  /\ cache = [k \in Kinds |-> EmptyDict]
  /\ table = [k \in Kinds |-> <<>>]
  /\ inTxn = FALSE
  /\ last = NoCall
  /\ ctx = NoCtx
  /\ reg = NoReg
  /\ expr \in { Returned(e) : e \in BaseFragments }

DoNot ==
  /\ Nestable
  /\ expr' = Returned(Not(expr.val))
  /\ StoreIdle

DoAnd ==
  /\ Nestable
  /\ \E exprs \in ArgLists(expr.val) : expr' = And(exprs)
  /\ StoreIdle

DoOr ==
  /\ Nestable
  /\ \E exprs \in ArgLists(expr.val) : expr' = Or(exprs)
  /\ StoreIdle

DoOrderChain ==
  /\ \E exprs \in OrderLists : expr' = OrderChain(exprs)
  /\ StoreIdle

NextQuery ==
  \/ DoNot
  \/ DoAnd
  \/ DoOr
  \/ DoOrderChain

SpecQuery == InitQuery /\ [][NextQuery]_vars

----------------------------------------------------------------------------
(* Add called from two execution contexts on one SQL object.  Each context *)
(* runs the statements of Add one at a time; between two statements of one *)
(* context the other context may run.                                      *)

\* the other context
Other(c) == CHOOSE c2 \in Ctxs : c2 # c

\* the items a context may pass to Add: not valid (so Add does not hand
\* them to Update) and not in use by the other context
Addable(c) ==
  {i \in Objs : ~ValidDbid(Begin, i) /\ ctx.run[Other(c)].i # i}

InitRace ==
  /\ obj = AppObjs
  /\ cache = [k \in Kinds |-> EmptyDict]
  /\ table = [k \in Kinds |-> <<>>]
  /\ inTxn = FALSE
  /\ last = NoCall
  /\ expr = NoExpr
  /\ ctx \in {[NoCtx EXCEPT !.single = b] : b \in BOOLEAN}
  /\ reg = NoReg

\* Add(item, commit) is called: the dbid test of Add has sent the item on
\* to the insert path.  Under the single-writer discipline a call starts
\* only when no other call is running.
AddCall(c) ==
  /\ ctx.run[c].pc = "idle"
  /\ ctx.single => ctx.run[Other(c)].pc = "idle"
  /\ \E i \in Addable(c), commit \in BOOLEAN :
       ctx' = [ctx EXCEPT !.run[c] =
                 [pc |-> "count", i |-> i, commit |-> commit, err |-> FALSE]]
  /\ UNCHANGED <<obj, cache, table, inTxn, last, expr, reg>>

\* item.dbid = self.TableLength(data_class)
AddCount(c) ==
  /\ ctx.run[c].pc = "count"
  /\ LET i == ctx.run[c].i
         n == TableLength(Begin, obj[i].cls)
     IN obj' = [obj EXCEPT ![i].idict = SetKey(@, "dbid", n)]
  /\ ctx' = [ctx EXCEPT !.run[c].pc = "cache"]
  /\ UNCHANGED <<cache, table, inTxn, last, expr, reg>>

\* self.cache[data_class.__name__][item.dbid] = item
AddCache(c) ==
  /\ ctx.run[c].pc = "cache"
  /\ LET i == ctx.run[c].i
     IN cache' = [cache EXCEPT ![obj[i].cls] = SetKey(@, obj[i].idict["dbid"], i)]
  /\ ctx' = [ctx EXCEPT !.run[c].pc = "insert"]
  /\ UNCHANGED <<obj, table, inTxn, last, expr, reg>>

\* self.connection.execute(insert ...): IntegrityError ends the call
AddInsert(c) ==
  /\ ctx.run[c].pc = "insert"
  /\ LET i == ctx.run[c].i
         d == obj[i].idict
         s == ExecInsert(Begin, obj[i].cls,
                [dbid |-> d["dbid"], val |-> ColVal(d), src |-> i, via |-> "Add"])
     IN /\ Store(s)
        /\ ctx' = [ctx EXCEPT !.run[c] =
                     IF s.err THEN [IdleCtx EXCEPT !.err = TRUE, !.i = i]
                     ELSE IF ctx.run[c].commit THEN [@ EXCEPT !.pc = "commit"]
                     ELSE [IdleCtx EXCEPT !.i = i]]
  /\ UNCHANGED <<last, expr, reg>>

\* if commit: self.connection.commit()
AddCommit(c) ==
  /\ ctx.run[c].pc = "commit"
  /\ Store(ConnCommit(Begin))
  /\ ctx' = [ctx EXCEPT !.run[c] = [IdleCtx EXCEPT !.i = ctx.run[c].i]]
  /\ UNCHANGED <<last, expr, reg>>

NextRace ==
  \E c \in Ctxs :
    \/ AddCall(c)
    \/ AddCount(c)
    \/ AddCache(c)
    \/ AddInsert(c)
    \/ AddCommit(c)

SpecRace == InitRace /\ [][NextRace]_vars

----------------------------------------------------------------------------
(* Registering types, lists and tables, and adding partial instances.  The *)
(* interpreter either gives subscripted generics a __name__ or not.        *)

RegIdle == UNCHANGED <<obj, cache, table, inTxn, last, expr, ctx>>

InitSchema ==
  /\ obj = AppObjs
  /\ cache = [k \in Kinds |-> EmptyDict]
  /\ table = [k \in Kinds |-> <<>>]
  /\ inTxn = FALSE
  /\ last = NoCall
  /\ expr = NoExpr
  /\ ctx = NoCtx
  /\ reg \in {[NoReg EXCEPT !.alias_named = b] : b \in BOOLEAN}

\* the classes the application registers a conversion for, with the
\* default it passes
ConvTypes == {"Temp", "Money"}

DefaultArg(t) == IF t = "Temp" THEN "Temp(0)" ELSE "Money(0)"

\* the arguments of RegisterTables
ClassLists == {<<"P", "C">>, <<"C", "P">>, <<"P">>, <<"C">>}

\* the attributes a new instance of a class may carry
KeySets(dc) ==
  SUBSET {Annotations(dc)[j].var : j \in 1..Len(Annotations(dc))}

DoRegisterTypeConversion ==
  \E t \in ConvTypes :
    /\ reg' = [RegisterTypeConversion(reg, t, DefaultArg(t)) EXCEPT
                 !.out = [NoOut EXCEPT !.op = "RegisterTypeConversion",
                                       !.dc = t]]
    /\ RegIdle

DoRegisterList ==
  /\ reg' = [RegisterList(reg, "P", "C", "kids") EXCEPT
               !.out = [NoOut EXCEPT !.op = "RegisterList", !.dc = "P"]]
  /\ RegIdle

\* RegisterTables is run once
DoRegisterTables ==
  \E data_classes \in ClassLists :
    /\ reg.tables = <<>>
    /\ reg' = RegisterTables(reg, data_classes)
    /\ RegIdle

DoAddPartial ==
  \E dc \in DataClasses :
    \E keys \in KeySets(dc) :
      /\ reg.count[dc] < MaxRows
      /\ reg' = AddPartial(reg, dc, keys)
      /\ RegIdle

NextSchema ==
  \/ DoRegisterTypeConversion
  \/ DoRegisterList
  \/ DoRegisterTables
  \/ DoAddPartial

SpecSchema == InitSchema /\ [][NextSchema]_vars

----------------------------------------------------------------------------
(* Reading a database file that already holds rows: SQL(db_path) on a file *)
(* written by an earlier run.  The cache starts empty, so the first read   *)
(* of a row allocates its instance.                                        *)

\* the values the column val of a stored row may hold
StoredVals == {TYPE_DEFAULT, 1}

\* The rows a table of the file may hold: dbids 0..n-1 (as Add and AddList
\* number them), inserted from no instance of this run (src = 0).  The
\* file holds rows of at most one of the classes.
PreRows ==
  UNION { { [j \in 1..n |-> [dbid |-> j - 1, val |-> v[j], src |-> 0,
                             via |-> "file"]] : v \in [1..n -> StoredVals] }
          : n \in 0..MaxPre }

InitReads ==
  /\ obj = AppObjs
  /\ cache = [k \in Kinds |-> EmptyDict]
  /\ table \in {f \in [Kinds -> PreRows] : \E k \in Kinds : f[k] = <<>>}
  /\ inTxn = FALSE
  /\ last = NoCall
  /\ expr = NoExpr
  /\ ctx = NoCtx
  /\ reg = NoReg

NextReads ==
  \/ DoSelect
  \/ DoSelectOne
  \/ DoSelectAtIndex
  \/ DoRandomEntries
  \/ DoTableLength

SpecReads == InitReads /\ [][NextReads]_vars

----------------------------------------------------------------------------
(* Properties *)

\* the instances of class k that Add and AddList treat as not yet persisted
Fresh(k) == {i \in Objs : obj[i].cls = k /\ ~ValidDbid(Begin, i)}

\* the row Add or AddList writes for instance i under dbid n
RowOf(i, n, via) ==
  [dbid |-> n, val |-> ColVal(obj[i].idict), src |-> i, via |-> via]

OnlyAdds(k) == \A j \in 1..Len(table[k]) : table[k][j].via = "Add"

\* C1: when every row of a table was inserted by Add since the table was
\* empty, the j-th Add (in call order) got dbid j-1: the j-th inserted row
\* has dbid j-1 and so has the instance it was inserted from; and one more
\* Add of a fresh instance (dbid missing or -1) does not raise, gives the
\* instance dbid = the number of rows, and appends the instance's row under
\* that dbid.
C1_SequentialAddDbids ==
  \A k \in Kinds :
    OnlyAdds(k) =>
      /\ \A j \in 1..Len(table[k]) :
           /\ table[k][j].dbid = j - 1
           /\ obj[table[k][j].src].idict["dbid"] = j - 1
      /\ \A i \in Fresh(k), commit \in BOOLEAN :
           LET r == Add(Begin, i, commit)
               n == Len(table[k])
           IN /\ ~r.err
              /\ r.obj[i].idict["dbid"] = n
              /\ r.table[k] = Append(table[k], RowOf(i, n, "Add"))

\* two Add calls on a table that was empty, one with dbid missing and one
\* with dbid = -1 before the call
C1_Witness ==
  /\ last.op = "Add" /\ last.k = "M" /\ ~last.err
  /\ Len(table["M"]) = 2
  /\ OnlyAdds("M")
  /\ table["M"][1].src # table["M"][2].src

\* C2: no Add or AddList raises because the dbid it gave a new row is the
\* dbid of a row already in the table.
C2_NoInsertCollides ==
  last.op \in {"Add", "AddList"} => ~last.err

\* C3: SelectAtIndex on the dbid of a row that Add inserted (and no Clear
\* removed) returns the instance that was passed to that Add.
C3_AddThenSelectAtIndex ==
  (last.op = "SelectAtIndex" /\ last.found) =>
    \A j \in 1..Len(table[last.k]) :
      LET row == table[last.k][j]
      IN (row.via = "Add" /\ row.dbid = obj[row.src].idict["dbid"]
            /\ obj[last.ret[1]].idict["dbid"] = row.dbid)
           => last.ret[1] = row.src

Reads == {"Select", "SelectOne", "SelectAtIndex", "RandomEntries"}

\* what SelectAtIndex(k, d) gives when called in the current state
ReadAt(k, d) == SelectAtIndex(Begin, k, d)

\* C4: when a read has just returned instance x for dbid d of class k, then
\* after one more call that is not Clear(k), a read of dbid d that finds a
\* row returns x again.
C4_RereadSameInstance ==
  [][ \A k \in Kinds, d \in Indexes, x \in Objs :
        ( /\ last.op \in Reads /\ last.k = k
          /\ \E j \in 1..Len(last.ret) : last.ret[j] = x
          /\ obj[x].idict["dbid"] = d
          /\ ~(last'.op = "Clear" /\ last'.k = k) )
        => (ReadAt(k, d)'.found => ReadAt(k, d)'.ret = <<x>>) ]_vars

\* what a call does besides returning: nothing stored changes, no statement
\* is issued, nothing is committed, no error is raised
NoOp(r) ==
  /\ r.table = table
  /\ r.stmts = 0
  /\ r.commits = 0
  /\ ~r.err

\* C5 as stated: Update without force_update on any instance of an immutable
\* class, and Add of such an instance with a valid dbid, is a no-op.
C5_ImmutableUpdateIsNoOp ==
  \A i \in Objs, commit \in BOOLEAN :
    Immutable(obj[i].cls) =>
      /\ NoOp(Update(Begin, i, FALSE, commit))
      /\ ValidDbid(Begin, i) => NoOp(Add(Begin, i, commit))

\* C5, amended: Update without force_update on an instance of an immutable
\* class that carries a dbid attribute changes no stored row, issues no
\* statement, commits nothing and raises nothing; so does Add of such an
\* instance with a valid dbid, which delegates to Update.
C5_KeyedImmutableUpdateIsNoOp ==
  \A i \in Objs, commit \in BOOLEAN :
    (Immutable(obj[i].cls) /\ HasDbid(Begin, i)) =>
      /\ NoOp(Update(Begin, i, FALSE, commit))
      /\ ValidDbid(Begin, i) => NoOp(Add(Begin, i, commit))

\* Update without force_update was just called on the immutable instance
\* that AddList had stored before
C5_Witness ==
  /\ last.op = "Update" /\ last.k = "I" /\ ~last.force /\ ~last.err
  /\ Len(table["I"]) = 1
  /\ table["I"][1].via = "AddList"
  /\ HasDbid(Begin, table["I"][1].src)

\* the lists of one or more instances none of which has a valid dbid
FreshLists == {l \in Lists : Len(l) > 0 /\ \A j \in 1..Len(l) : l[j] \in Fresh(ListKind(l))}

\* AddList(l) stored the k items of l as the only rows: TableLength is k, the
\* j-th item has dbid j-1 and its row is the j-th row
StoredAlone(r, l) ==
  /\ ~r.err
  /\ TableLength(r, ListKind(l)) = Len(l)
  /\ \A j \in 1..Len(l) :
       /\ r.obj[l[j]].idict["dbid"] = j - 1
       /\ r.table[ListKind(l)][j] = RowOf(l[j], j - 1, "AddList")

\* C6 as stated: AddList of k fresh items gives TableLength = k, the items
\* stored under dbids 0..k-1 in list order, whatever the table held.
C6_AddListFreshItems ==
  \A l \in FreshLists, commit \in BOOLEAN :
    StoredAlone(AddList(Begin, l, commit), l)

\* C6, amended: AddList of k different fresh items into an empty table gives
\* TableLength = k, the items stored under dbids 0..k-1 in list order.
C6_AddListIntoEmptyTable ==
  \A l \in FreshLists, commit \in BOOLEAN :
    table[ListKind(l)] = <<>> => StoredAlone(AddList(Begin, l, commit), l)

\* AddList has stored two instances in the table of the mutable class
C6_Witness ==
  /\ last.op = "AddList" /\ last.k = "M" /\ ~last.err
  /\ Len(table["M"]) = 2
  /\ \A j \in 1..2 : /\ table["M"][j].via = "AddList"
                     /\ table["M"][j].dbid = j - 1
                     /\ obj[table["M"][j].src].idict["dbid"] = j - 1
  /\ table["M"][1].src # table["M"][2].src

C8_UpdateDelegatesToAdd ==
  \A i \in Objs, commit \in BOOLEAN :
    ~ValidDbid(Begin, i) =>
      Update(Begin, i, FALSE, commit) = Add(Begin, i, commit)

\* C9: UpdateList on a list of instances of a mutable class raises no
\* error, and every instance of the list that had no valid dbid ends up with
\* a valid dbid, different from the dbids of the other instances of the
\* list, and with exactly one row inserted from it.
C9_UpdateListAddsKeyless ==
  \A l \in Lists, commit \in BOOLEAN :
    (Len(l) > 0 /\ ~Immutable(ListKind(l))) =>
      LET r == UpdateList(Begin, l, FALSE, commit)
          k == ListKind(l)
      IN /\ ~r.err
         /\ \A j \in 1..Len(l) :
              ~ValidDbid(Begin, l[j]) =>
                /\ ValidDbid(r, l[j])
                /\ Cardinality({q \in 1..Len(r.table[k]) :
                                  r.table[k][q].src = l[j]}) = 1
                /\ \A j2 \in 1..Len(l) :
                     j2 # j => r.obj[l[j2]].idict["dbid"] # r.obj[l[j]].idict["dbid"]

\* what the write operations called with the given commit argument give
WriteResults(commit) ==
  {Add(Begin, i, commit) : i \in Objs}
    \cup {Update(Begin, i, f, commit) : i \in Objs, f \in BOOLEAN}
    \cup {AddList(Begin, l, commit) : l \in Lists}
    \cup {UpdateList(Begin, l, f, commit) : l \in Lists, f \in BOOLEAN}

\* the stores the read operations leave
ReadResults ==
  {Select(Begin, k, a).s : k \in Kinds, a \in Preds}
    \cup {SelectOne(Begin, k, a).s : k \in Kinds, a \in Preds}
    \cup {SelectAtIndex(Begin, k, d).s : k \in Kinds, d \in Indexes}
    \cup UNION { {RandomEntries(Begin, k, res).s : res \in RandomResults(table[k], n)}
                 : k \in Kinds, n \in Nums }

\* C10 as stated, the clause "stay pending until an explicit Commit()": the
\* only call after which pending writes are no longer pending is Commit().
C10_PendingUntilExplicitCommit ==
  [][ (inTxn /\ ~inTxn') => last'.op = "Commit" ]_vars

\* C10, amended: a write operation called with commit = false commits
\* nothing, whichever operations it delegates to, and leaves what it and
\* earlier calls wrote pending; the reads commit nothing either; so pending
\* writes stay pending until the connection is next committed, by Commit(),
\* by Clear or by a write operation called with commit = true.  A write
\* operation called with commit = true that issued statements and returned
\* has nothing pending, and neither has Commit().
C10_DeferredCommit ==
  /\ \A r \in WriteResults(FALSE) :
       /\ r.commits = 0
       /\ inTxn => r.inTxn
       /\ r.stmts > 0 => r.inTxn
  /\ \A r \in ReadResults :
       /\ r.commits = 0
       /\ r.inTxn = inTxn
  /\ \A r \in WriteResults(TRUE) :
       (~r.err /\ r.stmts > 0) => (~r.inTxn /\ r.commits > 0)
  /\ ~Commit(Begin).inTxn

\* an Add with commit = false has stored a row that is still pending
C10_Witness ==
  /\ last.op = "Add" /\ last.k = "M" /\ ~last.err
  /\ inTxn
  /\ Len(table["M"]) = 1
  /\ table["M"][1].via = "Add"

\* a read that found nothing: it returns None, raises nothing, and leaves
\* the cache and the tables as they were
Absent(r) ==
  /\ ~r.found
  /\ r.ret = <<>>
  /\ ~r.s.err
  /\ r.s.cache = cache
  /\ r.s.table = table

\* C11: SelectOne with a predicate no row of the table satisfies, and
\* SelectAtIndex with a dbid no row of the table has, return None without
\* raising and leave the cache and the table unchanged; RandomEntries on an
\* empty table returns the empty list.
C11_AbsenceIsAValue ==
  \A k \in Kinds :
    /\ \A args \in Preds :
         (\A j \in 1..Len(table[k]) : ~Matches(table[k][j], args))
           => Absent(SelectOne(Begin, k, args))
    /\ \A index \in Indexes :
         index \notin RowDbids(table[k])
           => Absent(SelectAtIndex(Begin, k, index))
    /\ \A num \in Nums :
         table[k] = <<>> =>
           \A results \in RandomResults(table[k], num) :
             LET r == RandomEntries(Begin, k, results)
             IN r.ret = <<>> /\ ~r.s.err
    /\ (last.op \in {"SelectOne", "SelectAtIndex"} /\ last.k = k /\ ~last.found)
         => (~last.err /\ last.ret = <<>>)

\* SelectAtIndex has just returned None for a dbid that is not in a table
\* that holds a row and has a cached instance
C11_Witness ==
  /\ last.op = "SelectAtIndex" /\ last.k = "M" /\ ~last.found
  /\ Len(table["M"]) = 1
  /\ DOMAIN cache["M"] # {}

\* text and values of a fragment
Text(e) == e.v[1].v

Values(e) == e.v[2].v

\* number of "?" placeholders in a text
Placeholders(s) == Cardinality({j \in 1..Len(s) : s[j] = "?"})

\* the texts of exprs, each in parentheses, joined by sep
RECURSIVE Joined(_, _)
Joined(exprs, sep) ==
  IF Len(exprs) = 1
    THEN <<"(">> \o Text(exprs[1]) \o <<")">>
    ELSE <<"(">> \o Text(exprs[1]) \o <<")">> \o sep \o Joined(Tail(exprs), sep)

\* the value tuples of exprs, concatenated left to right
RECURSIVE AllValues(_)
AllValues(exprs) ==
  IF Len(exprs) = 0 THEN <<>>
  ELSE Values(exprs[1]) \o AllValues(Tail(exprs))

\* C12: for every fragment built from the base fragments by And, Or and
\* Not (nested in any way), and every tuple of 1..MaxArgs fragments, And
\* and Or return the sub-fragment texts each in parentheses joined by
\* " and " / " or " in argument order, with the value tuples concatenated
\* left to right; Not keeps the values; and every fragment has as many
\* placeholders as values.
C12_ChainTextAndValues ==
  (expr.err = "none" /\ IsFragment(expr.val)) =>
    /\ Placeholders(Text(expr.val)) = Len(Values(expr.val))
    /\ Values(Not(expr.val)) = Values(expr.val)
    /\ Text(Not(expr.val)) = <<"n", "o", "t", " ", "(">> \o Text(expr.val) \o <<")">>
    /\ \A exprs \in ArgLists(expr.val) :
         /\ And(exprs) =
              Returned(Tuple(<<Str(Joined(exprs, <<" ", "a", "n", "d", " ">>)),
                               Tuple(AllValues(exprs))>>))
         /\ Or(exprs) =
              Returned(Tuple(<<Str(Joined(exprs, <<" ", "o", "r", " ">>)),
                               Tuple(AllValues(exprs))>>))

\* Or(Not(a > 1), a between 1 and 2) has been built: three placeholders,
\* values (1, 1, 2)
C12_Witness ==
  /\ expr = Or(<<Not(GreaterThan(<<"a">>, 1)), Between(<<"a">>, 1, 2)>>)
  /\ Placeholders(Text(expr.val)) = 3
  /\ Values(expr.val) = <<1, 1, 2>>

\* the ordering fragments exprs joined with ", "
RECURSIVE CommaJoined(_)
CommaJoined(exprs) ==
  IF Len(exprs) = 1 THEN exprs[1].v
  ELSE exprs[1].v \o <<",", " ">> \o CommaJoined(Tail(exprs))

\* C13: what OrderChain gave for 1..MaxArgs ordering fragments made by
\* OrderAscending and OrderDescending is the text of the fragments joined
\* with ", " in argument order, e.g. "a asc, b desc".
C13_OrderChainJoins ==
  \A exprs \in OrderLists :
    expr = OrderChain(exprs) => expr = Returned(Str(CommaJoined(exprs)))

\* two different instances of one class carry the same valid dbid
DuplicateKeys(i1, i2) ==
  /\ i1 # i2
  /\ obj[i1].cls = obj[i2].cls
  /\ ValidDbid(Begin, i1)
  /\ ValidDbid(Begin, i2)
  /\ obj[i1].idict["dbid"] = obj[i2].idict["dbid"]

\* C14: when the Add calls keep the single-writer discipline (each call
\* runs from its first statement to its last with no other call between),
\* no two instances get the same dbid and no insert is rejected; two
\* instances share a dbid d only when the calls interleaved, and then the
\* cache entry of d holds one of the two and the table at most one row of
\* dbid d.
C14_DuplicateKeysOnlyWhenInterleaved ==
  /\ ctx.single =>
       /\ \A i1, i2 \in Objs : ~DuplicateKeys(i1, i2)
       /\ \A c \in Ctxs : ~ctx.run[c].err
  /\ \A i1, i2 \in Objs :
       DuplicateKeys(i1, i2) =>
         LET k == obj[i1].cls
             d == obj[i1].idict["dbid"]
         IN /\ ~ctx.single
            /\ d \in DOMAIN cache[k] => cache[k][d] \in {i1, i2}
            /\ Cardinality({j \in 1..Len(table[k]) : table[k][j].dbid = d}) <= 1

\* both contexts read row count 0 before either inserted: the two items
\* have dbid 0, the instance cached second has replaced the first in the
\* cache, the first insert stored its row and the second was rejected
C14_Witness ==
  \E c \in Ctxs :
    LET i1 == ctx.run[c].i
        i2 == ctx.run[Other(c)].i
    IN /\ ~ctx.single
       /\ ctx.run[c].pc = "idle" /\ ctx.run[Other(c)].pc = "idle"
       /\ i1 # 0 /\ i2 # 0
       /\ DuplicateKeys(i1, i2)
       /\ obj[i1].idict["dbid"] = 0
       /\ cache[obj[i1].cls][0] = i2
       /\ Len(table[obj[i1].cls]) = 1
       /\ table[obj[i1].cls][1].src = i1
       /\ ctx.run[Other(c)].err

\* the places of the columns called name in a column list
Named(name, sql_columns) ==
  {j \in 1..Len(sql_columns) : sql_columns[j][1] = name}

\* a column list has exactly one column called name, of integer type
OnceInteger(name, sql_columns) ==
  /\ Cardinality(Named(name, sql_columns)) = 1
  /\ \A j \in Named(name, sql_columns) : sql_columns[j][2] = "integer"

\* C15: once RegisterTables has been called with the parent class P and
\* the child class C, in either order, and whatever calls of RegisterList
\* for P's list field came before or after, C's column list has the
\* parent-link column and the order column exactly once each, both
\* integer, and P's column list has no column for the list field.
C15_ChildListRegisteredOnce ==
  reg.tables \in {<<"P", "C">>, <<"C", "P">>} =>
    /\ OnceInteger(MakeListID(ListIdentifier("P", "kids")),
                   reg.sql_columns["C"])
    /\ OnceInteger(MakeListOrder(ListIdentifier("P", "kids")),
                   reg.sql_columns["C"])
    /\ Named(<<"kids">>, reg.sql_columns["P"]) = {}

\* C16: every column of every class's column list has a storage type
\* with an entry in the default registry, and Add of a partial instance
\* never fails for a missing default.
C16_EveryColumnTypeHasDefault ==
  /\ \A dc \in DataClasses :
       \A j \in 1..Len(reg.sql_columns[dc]) :
         reg.sql_columns[dc][j][2] \in DOMAIN reg.type_default
  /\ reg.out.op = "Add" => reg.out.err # "KeyError"

\* an UpdateList call with a non-empty list of instances that all have a
\* valid dbid, of a mutable class or with force_update
AllKeyed(l, force) ==
  /\ Len(l) >= 1
  /\ \A j \in 1..Len(l) : ValidDbid(Begin, l[j])
  /\ ~Immutable(ListKind(l)) \/ force

\* C17: UpdateList on n >= 1 instances that all have a valid dbid, of a
\* mutable class or with force_update, issues exactly one executemany
\* UPDATE, has the child lists of each instance persisted as an update
\* exactly once, and commits at most once.
C17_OneBatchedUpdate ==
  \A l \in Lists, force \in BOOLEAN, commit \in BOOLEAN :
    AllKeyed(l, force) =>
      LET s == UpdateList(Begin, l, force, commit)
      IN  /\ s.stmts = 1
          /\ \A j \in 1..Len(l) : s.upd[l[j]] = 1
          /\ s.commits <= 1

\* the item lists a caller can pass, the same instance more than once
\* included: instances of one class, at most MaxList of them
ItemLists ==
  UNION { { l \in [1..n -> Objs] :
              \A j \in 1..n : obj[l[j]].cls = obj[l[1]].cls }
          : n \in 0..MaxList }

\* every entry n -> instance of every cache bucket has instance.dbid = n
CacheKeyed(s) ==
  \A k \in Kinds :
    \A n \in DOMAIN s.cache[k] :
      /\ HasDbid(s, s.cache[k][n])
      /\ s.obj[s.cache[k][n]].idict["dbid"] = n

\* C18: in every reachable state, and after AddList on any list of
\* instances from such a state, every cache entry n -> instance has
\* instance.dbid = n.
C18_CacheKeyedByDbid ==
  /\ CacheKeyed(Begin)
  /\ \A l \in ItemLists, commit \in BOOLEAN :
       CacheKeyed(AddList(Begin, l, commit))

\* every dbid of every cache bucket is the dbid of a row of the table
CachedRowsExist(s) ==
  \A k \in Kinds : DOMAIN s.cache[k] \subseteq RowDbids(s.table[k])

\* a call that raised left the cache and the instances as they were
FailedCallUndone(s) ==
  s.err => s.cache = cache /\ s.obj = obj

\* C19: in every reachable state every cached dbid is the dbid of a stored
\* row, and an Add or AddList whose INSERT is rejected leaves the cache
\* buckets and the dbid of the items as they were before the call.
C19_FailedInsertLeavesCache ==
  /\ CachedRowsExist(Begin)
  /\ \A i \in Objs, commit \in BOOLEAN :
       FailedCallUndone(Add(Begin, i, commit))
  /\ \A l \in Lists, commit \in BOOLEAN :
       FailedCallUndone(AddList(Begin, l, commit))

\* the table of instance i's class has a row with i's dbid and i's value
Persisted(s, i) ==
  /\ HasDbid(s, i)
  /\ \E j \in 1..Len(s.table[s.obj[i].cls]) :
       /\ s.table[s.obj[i].cls][j].dbid = s.obj[i].idict["dbid"]
       /\ s.table[s.obj[i].cls][j].val = ColVal(s.obj[i].idict)

\* C20: in every reachable state, an Add of an instance of a mutable class
\* that returns without an error leaves a row with the instance's dbid and
\* column values in the table, also when the instance was stored before
\* and Clear has emptied the table since.
C20_AddPersists ==
  \A i \in Objs, commit \in BOOLEAN :
    ~Immutable(obj[i].cls) =>
      LET s == Add(Begin, i, commit)
      IN  ~s.err => Persisted(s, i)

\* what the read operations give when called in the current state, each
\* with the class it was called for
ReadCalls ==
  {[k |-> k, r |-> Select(Begin, k, a)] : k \in Kinds, a \in Preds}
    \cup {[k |-> k, r |-> SelectOne(Begin, k, a)] : k \in Kinds, a \in Preds}
    \cup {[k |-> k, r |-> SelectAtIndex(Begin, k, d)] :
            k \in Kinds, d \in Indexes}
    \cup UNION { {[k |-> k, r |-> RandomEntries(Begin, k, res)] :
                    res \in RandomResults(table[k], n)}
                 : k \in Kinds, n \in Nums }

\* a read left every stored row, the transaction and every cache entry as
\* they were, and every cache entry it added is in the bucket of the class
\* read, under the dbid of an instance it returned
FramePreserved(c) ==
  /\ ~c.r.s.err
  /\ c.r.s.table = table
  /\ c.r.s.commits = 0
  /\ c.r.s.inTxn = inTxn
  /\ \A k \in Kinds :
       /\ \A n \in DOMAIN cache[k] :
            n \in DOMAIN c.r.s.cache[k] /\ c.r.s.cache[k][n] = cache[k][n]
       /\ \A n \in DOMAIN c.r.s.cache[k] \ DOMAIN cache[k] :
            /\ k = c.k
            /\ n \in RowDbids(table[k])
            /\ \E j \in 1..Len(c.r.ret) :
                 /\ c.r.ret[j] = c.r.s.cache[k][n]
                 /\ c.r.s.obj[c.r.ret[j]].idict["dbid"] = n

\* C21: in every reachable state, whichever of Select, SelectOne,
\* SelectAtIndex and RandomEntries is called changes no stored row, commits
\* nothing, and neither removes nor replaces a cache entry; the only cache
\* entries it adds are those of the rows it returned that were not cached
\* yet; TableLength gives the row count and changes nothing.
C21_ReadsPreserveFrame ==
  /\ \A c \in ReadCalls : FramePreserved(c)
  /\ \A k \in Kinds : TableLength(Begin, k) = Len(table[k])

\* Select has just returned the two rows of a table of which the second
\* was cached before and the first was not: the instance of the first row
\* was allocated after that of the second, and both are cached.
C21_Witness ==
  /\ last.op = "Select" /\ last.k = "M" /\ ~last.err
  /\ Len(table["M"]) = 2
  /\ Len(last.ret) = 2
  /\ last.ret[1] > last.ret[2]
  /\ DOMAIN cache["M"] = {0, 1}
  /\ cache["M"][0] = last.ret[1]
  /\ cache["M"][1] = last.ret[2]

============================================================================
